---- MODULE Spec2Model ----
(***************************************************************************)
(* Resilient caching fetch layer of the F1 telemetry backend:              *)
(*   CircuitBreakerService      (circuit-breaker.service.ts)               *)
(*   CacheService               (cache.service.ts)                         *)
(*   OpenF1ClientService        (openf1-client.service.ts)                 *)
(*   CachedOpenF1ClientService  (cached-openf1-client.service.ts)          *)
(* The runtime is single-threaded: a handler runs to its next suspension   *)
(* point (the HTTP call to the upstream API, a command sent to the Redis   *)
(* store), so one action is the code between two suspension points.  The   *)
(* synchronous code is written as operators on a record S of the mutable   *)
(* program state, so that a handler that calls other handlers composes.    *)
(***************************************************************************)
EXTENDS Integers, Sequences, FiniteSets, TLC

\* ---------------------------------------------------------------- bounds
MaxCalls == 7          \* calls started in one behaviour of Spec
MaxInFlight == 6       \* calls in progress at the same time
MaxFetches == 6        \* fetches started in one behaviour of SpecFetch
MaxFetchInFlight == 2  \* fetches in progress at the same time
MaxPreloads == 2       \* preloads started in one behaviour of SpecPreload
MaxSeq == 3            \* fetches a handler awaits one after the other
MaxTtlFetches == 7     \* fetches started in one behaviour of SpecTtl
MaxCacheOps == 3       \* CacheService operations in one behaviour of SpecCache
TickMs == 15000        \* clock granularity (ms)
MaxNow == 45001        \* the clock stops advancing here
LongTickMs == 150000   \* clock granularity (ms) where cache entries expire
MaxLongNow == 450001   \* the clock stops advancing here in SpecTtl
StartTime == 1         \* Date.now() at construction (positive)
MaxVer == 1            \* the upstream data changes at most this often
MaxDrs == 15           \* the DRS codes tried are -1..MaxDrs
MaxSegments == 1       \* mini-sectors per sector in a lap row
MaxLiveInFlight == 2   \* calls in progress at the same time in SpecLive
MaxStat == 1           \* the request counters count up to here in SpecLive
MaxReplays == 3        \* startReplay calls in one behaviour of SpecReplay

\* ------------------------------------------------------ program constants
failureThreshold == 5
recoveryTimeout == 30000

CLOSED == "CLOSED"
OPEN == "OPEN"
HALF_OPEN == "HALF_OPEN"
CircuitBreakerState == {CLOSED, OPEN, HALF_OPEN}

\* A value of type T | null | undefined is <<>> or <<v>>.
Nothing == <<>>
Some(v) == <<v>>

\* The errors a caller can see.
BreakerOpenError == "Circuit Breaker is OPEN - Service temporarily unavailable"
UpstreamError == "HttpException(SERVICE_UNAVAILABLE)"

\* The fallback every category fetch hands to execute: the empty list.
EmptyList == <<>>

VARIABLES
  state, failureCount, lastFailureTime,           \* CircuitBreakerService
  totalRequests, successfulRequests, failedRequests,
  cache,           \* the Redis store: a set of [key, val, exp]
  ready,           \* client.isReady
  calls,           \* the calls in progress, one per slot
  preload,         \* the preloadReplayData call and its Promise.all
  handler,         \* a request handler that awaits fetches in sequence
  replay,          \* the SessionsService.startReplay call in progress
  done,            \* the latest completion, as its caller saw it
  now,             \* Date.now()
  upVer,           \* version of the data the upstream API serves
  started,         \* how many calls were started
  raw,             \* a row of upstream data handed to F1TransformationsUtil
  transformed      \* what F1TransformationsUtil made of it

vars == <<state, failureCount, lastFailureTime,
          totalRequests, successfulRequests, failedRequests,
          cache, ready, calls, preload, handler, replay, done, now, upVer,
          started, raw, transformed>>

envVars == <<ready, now, upVer>>
decoderVars == <<raw, transformed>>

Slots == 1..MaxInFlight

\* ------------------------------------------------------------- parameters
\* Query parameters; every field is optional in the interfaces.
NoParams ==
  [session_key |-> Nothing, driver_number |-> Nothing, lap_number |-> Nothing,
   country_name |-> Nothing, year |-> Nothing, session_name |-> Nothing,
   date |-> Nothing, date_start |-> Nothing, date_end |-> Nothing,
   category |-> Nothing, flag |-> Nothing]

\* JavaScript truthiness of an optional number / string / array.
TruthyNum(o) == o # Nothing /\ o[1] # 0
TruthyStr(o) == o # Nothing /\ o[1] # ""
\* (mutant) an empty array is taken for "no data"
TruthyArr_NonEmpty(o) == o # Nothing /\ o[1] # <<>>

TruthyArr(o) == o # Nothing

\* `${x}` of an optional number.
Tpl(o) == IF o = Nothing THEN "undefined" ELSE ToString(o[1])

\* ------------------------------------------------------------ call records
\* (sent: the version of the upstream data when the call's request to the
\* upstream API, or its first command to the store, went out)
Free ==
  [kind |-> "none", pc |-> "idle", cat |-> "-", params |-> NoParams,
   key |-> <<>>, fb |-> FALSE, resp |-> Nothing, res |-> EmptyList, hit |-> FALSE,
   wrote |-> FALSE, invokedIn |-> "-", fcAfter |-> -1, parent |-> 0,
   sent |-> 0]

NoPreload ==
  [status |-> "none", sessionKey |-> 0, results |-> <<>>, error |-> ""]

PreloadCats == <<"drivers", "laps", "intervals", "stints">>

\* The handler's local variables: what its awaited fetches gave it.
NoHandler == [waiting |-> FALSE, results |-> <<>>]

\* startReplay's position and locals: `drivers` once getSessionDrivers has
\* returned, the settled promise it is about to resume from, and how it ended.
NoReplay ==
  [pc |-> "idle", sessionKey |-> 0, drivers |-> Nothing, awaited |-> Nothing,
   error |-> ""]

\* Who awaits a call: nobody the model follows, the Promise.all of the
\* preload (the index of the promise), the sequential handler, or
\* startReplay.
Detached == 0
ByHandler == -1
ByReplay == -2

\* The mutable program state as one record.
Cur ==
  [state |-> state, failureCount |-> failureCount,
   lastFailureTime |-> lastFailureTime, totalRequests |-> totalRequests,
   successfulRequests |-> successfulRequests,
   failedRequests |-> failedRequests,
   cache |-> cache, calls |-> calls, preload |-> preload,
   handler |-> handler, replay |-> replay, done |-> done]

Becomes(S) ==
  /\ state' = S.state
  /\ failureCount' = S.failureCount
  /\ lastFailureTime' = S.lastFailureTime
  /\ totalRequests' = S.totalRequests
  /\ successfulRequests' = S.successfulRequests
  /\ failedRequests' = S.failedRequests
  /\ cache' = S.cache
  /\ calls' = S.calls
  /\ preload' = S.preload
  /\ handler' = S.handler
  /\ replay' = S.replay
  /\ done' = S.done

FreeSlots(S) == {c \in Slots : S.calls[c].pc = "idle"}
LowestFree(S) == CHOOSE c \in FreeSlots(S) : \A d \in FreeSlots(S) : c <= d

\* ------------------------------------------------- CircuitBreakerService
\* (mutant) the recovery timeout is compared with the clock, not with the
\* time since the last failure
shouldAttemptRecovery_Abs(S) ==
  IF S.lastFailureTime = Nothing THEN FALSE
  ELSE IF S.lastFailureTime[1] = 0 THEN FALSE
  ELSE now >= recoveryTimeout

shouldAttemptRecovery(S) ==
  IF S.lastFailureTime = Nothing THEN FALSE
  ELSE IF S.lastFailureTime[1] = 0 THEN FALSE
  ELSE now - S.lastFailureTime[1] >= recoveryTimeout

\* (mutant) off by one: the breaker trips one failure late
ThresholdReached_Strict(fc) == fc > failureThreshold

ThresholdReached(fc) == fc >= failureThreshold

\* (mutant) a success in HALF_OPEN does not close the breaker
onSuccess_StaysHalfOpen(S) ==
  [S EXCEPT !.successfulRequests = @ + 1,
            !.failureCount = 0]

\* (mutant) the counter survives a success unless the breaker was HALF_OPEN
onSuccess_KeepCount(S) ==
  [S EXCEPT !.successfulRequests = @ + 1,
            !.failureCount = IF S.state = HALF_OPEN THEN 0 ELSE @,
            !.state = IF @ = HALF_OPEN THEN CLOSED ELSE @]

onSuccess(S) ==
  [S EXCEPT !.successfulRequests = @ + 1,
            !.failureCount = 0,
            !.state = IF @ = HALF_OPEN THEN CLOSED ELSE @]

\* (mutant) a failure that comes in while the breaker is OPEN is not counted
onFailure_Uncounted(S) ==
  [S EXCEPT !.failedRequests = IF S.state = OPEN THEN @ ELSE @ + 1,
            !.failureCount = @ + 1,
            !.lastFailureTime = Some(now),
            !.state = IF ThresholdReached(S.failureCount + 1)
                        THEN OPEN ELSE @]

\* (mutant) a failure in HALF_OPEN opens the breaker whatever the counter
onFailure_ReopenFromHalfOpen(S) ==
  [S EXCEPT !.failedRequests = @ + 1,
            !.failureCount = @ + 1,
            !.lastFailureTime = Some(now),
            !.state = IF S.state = HALF_OPEN
                           \/ ThresholdReached(S.failureCount + 1)
                        THEN OPEN ELSE @]

onFailure(S) ==
  [S EXCEPT !.failedRequests = @ + 1,
            !.failureCount = @ + 1,
            !.lastFailureTime = Some(now),
            !.state = IF ThresholdReached(S.failureCount + 1)
                        THEN OPEN ELSE @]

\* (mutant) the OPEN breaker lets every request through
Blocked_Never(S) == FALSE

\* The OPEN branch of execute rejects the request.
Blocked(S) == S.state = OPEN /\ ~shouldAttemptRecovery(S)

\* (mutant) the fallback is returned whenever one was supplied
UseFallback_Always(fb, fc) == fb

\* (mutant) the fallback is returned without checking that there is one
UseFallback_Unchecked(fb, fc) == ThresholdReached(fc)

\* The fallback is used after a failed operation.
UseFallback(fb, fc) == fb /\ ThresholdReached(fc)

\* ------------------------------------------------------------ CacheService
generateSessionKey(sessionKey, dataType) ==
  <<"session", Tpl(sessionKey), dataType>>

generateDriverKey(sessionKey, driverNumber, dataType) ==
  <<"session", Tpl(sessionKey), "driver", Tpl(driverNumber), dataType>>

generateLapKey(sessionKey, lapNumber) ==
  IF TruthyNum(lapNumber)
    THEN <<"session", Tpl(sessionKey), "lap", Tpl(lapNumber)>>
    ELSE <<"session", Tpl(sessionKey), "laps">>

\* JSON.stringify / JSON.parse of a list of records.
Stringify(v) == [json |-> v]
Parse(s) == s.json

Unexpired(e) == now < e.exp

\* client.get(key): the stored string, or null.
StoreGet(S, key) ==
  IF \E e \in S.cache : e.key = key /\ Unexpired(e)
    THEN Some((CHOOSE e \in S.cache : e.key = key /\ Unexpired(e)).val)
    ELSE Nothing

\* (mutant) the write never reaches the store
StoreSetEx_Lost(S, key, ttl, val) == S

\* (mutant) the write keeps the entry the key already has (SET ... NX)
StoreSetEx_KeepFirst(S, key, ttl, val) ==
  IF \E e \in S.cache : e.key = key
    THEN S
    ELSE [S EXCEPT !.cache = @ \cup {[key |-> key, val |-> val,
                                       exp |-> now + ttl * 1000]}]

\* (mutant) the write leaves an older entry of the key in place
StoreSetEx_Append(S, key, ttl, val) ==
  [S EXCEPT !.cache = @ \cup {[key |-> key, val |-> val,
                                exp |-> now + ttl * 1000]}]

\* client.setEx(key, ttl, value)
StoreSetEx(S, key, ttl, val) ==
  [S EXCEPT !.cache = {e \in @ : e.key # key}
                        \cup {[key |-> key, val |-> val,
                               exp |-> now + ttl * 1000]}]

defaultTtl == 300

\* CacheService.get once the store has answered with `reply` (a JSON text
\* is never the empty string, so `if (value)` tests for null).
CacheGetResult(reply) ==
  IF reply # Nothing THEN Some(Parse(reply[1])) ELSE Nothing

\* (mutant) the ttl option is ignored
SetTtl_Default(ttl) == defaultTtl

\* options?.ttl || this.defaultTtl
SetTtl(ttl) == IF ttl # 0 THEN ttl ELSE defaultTtl

\* client.del(keys)
StoreDel(S, keys) == [S EXCEPT !.cache = {e \in @ : e.key \notin keys}]

\* A glob pattern is a key whose last part is "*": it matches the keys that
\* begin with the parts before it.
Matches(pattern, key) ==
  /\ Len(key) >= Len(pattern)
  /\ \A i \in 1..(Len(pattern) - 1) : key[i] = pattern[i]

\* client.keys(pattern)
StoreKeys(S, pattern) ==
  {e.key : e \in {x \in S.cache : Unexpired(x) /\ Matches(pattern, x.key)}}

\* `session:${sessionKey}:*`
SessionPattern(sessionKey) == <<"session", Tpl(sessionKey), "*">>

CacheOps == {"get", "set", "del", "delPattern", "exists", "flush"}

\* ---------------------------------------------- CachedOpenF1ClientService
Categories ==
  {"sessions", "drivers", "laps", "car_data", "intervals", "race_control",
   "stints"}

generateSessionsCacheKey(p) ==
  <<"sessions">>
    \o (IF TruthyStr(p.country_name)
          THEN <<"country", p.country_name[1]>> ELSE <<>>)
    \o (IF TruthyNum(p.year) THEN <<"year", Tpl(p.year)>> ELSE <<>>)
    \o (IF TruthyNum(p.session_key)
          THEN <<"key", Tpl(p.session_key)>> ELSE <<>>)
    \o (IF TruthyStr(p.session_name)
          THEN <<"name", p.session_name[1]>> ELSE <<>>)

generateLapsCacheKey(p) ==
  IF TruthyNum(p.lap_number)
    THEN generateLapKey(p.session_key, p.lap_number)
  ELSE IF TruthyNum(p.driver_number)
    THEN generateDriverKey(p.session_key, p.driver_number, "laps")
  ELSE generateLapKey(p.session_key, Nothing)

generateRaceControlCacheKey(p) ==
  <<"race_control">>
    \o (IF TruthyNum(p.session_key)
          THEN <<"session", Tpl(p.session_key)>> ELSE <<>>)
    \o (IF TruthyStr(p.date) THEN <<"date", p.date[1]>> ELSE <<>>)
    \o (IF TruthyStr(p.category) THEN <<"cat", p.category[1]>> ELSE <<>>)
    \o (IF TruthyStr(p.flag) THEN <<"flag", p.flag[1]>> ELSE <<>>)

\* The cache key each category fetch computes.
CacheKey(cat, p) ==
  CASE cat = "sessions" -> generateSessionsCacheKey(p)
    [] cat = "drivers" -> generateSessionKey(p.session_key, "drivers")
    [] cat = "laps" -> generateLapsCacheKey(p)
    [] cat = "car_data" ->
         generateDriverKey(p.session_key, p.driver_number, "telemetry")
    [] cat = "intervals" -> generateSessionKey(p.session_key, "intervals")
    [] cat = "race_control" -> generateRaceControlCacheKey(p)
    [] cat = "stints" -> generateSessionKey(p.session_key, "stints")

\* The ttl (seconds) each category fetch passes to CacheService.set.
FetchTtl(cat) ==
  CASE cat = "sessions" -> 3600
    [] cat = "drivers" -> 1800
    [] cat = "laps" -> 900
    [] cat = "car_data" -> 600
    [] cat = "intervals" -> 300
    [] cat = "race_control" -> 600
    [] cat = "stints" -> 1800

\* F1_CONSTANTS.CACHE_TTL (seconds), by the category it is meant for.
CACHE_TTL(cat) ==
  CASE cat = "sessions" -> 3600
    [] cat = "drivers" -> 1800
    [] cat = "laps" -> 900
    [] cat = "car_data" -> 600
    [] cat = "intervals" -> 300
    [] cat = "race_control" -> 1800
    [] cat = "stints" -> 1800

\* What GET <base>/<category>?<params> answers when it answers.
Upstream(cat, p) == <<[cat |-> cat, params |-> p, ver |-> upVer]>>

\* The records the upstream API had when its data was at version v.
UpstreamAt(cat, p, v) == <<[cat |-> cat, params |-> p, ver |-> v]>>

\* Promise.all sees one of its promises settle.
PromiseAllSettle(S, idx, outcome, res, err) ==
  IF idx = Detached THEN S
  ELSE IF outcome = "threw"
    THEN IF S.preload.status = "pending"
           THEN [S EXCEPT !.preload.status = "rejected",
                          !.preload.error = err]
           ELSE S
  ELSE LET results == [S.preload.results EXCEPT ![idx] = Some(res)]
       IN  [S EXCEPT !.preload.results = results,
                     !.preload.status =
                        IF @ = "pending"
                             /\ \A i \in DOMAIN results : results[i] # Nothing
                          THEN "resolved" ELSE @]

\* The handler's `await fetchX(params)` returns or throws.
HandlerResumes(S, r) ==
  [S EXCEPT !.handler.waiting = FALSE,
            !.handler.results = Append(@, r)]

\* The call in slot c hands the list `res`, or the error `err`, to its
\* caller.
Complete(S, c, outcome, res, err) ==
  LET r == S.calls[c]
      d == [kind |-> r.kind, cat |-> r.cat, params |-> r.params,
            key |-> r.key, fb |-> r.fb, outcome |-> outcome, res |-> res, err |-> err,
            hit |-> r.hit, wrote |-> r.wrote, invokedIn |-> r.invokedIn,
            fcAfter |-> r.fcAfter, parent |-> r.parent, sent |-> r.sent]
      S1 == [S EXCEPT !.calls[c] = Free, !.done = <<d>>]
  IN  IF r.parent = ByHandler THEN HandlerResumes(S1, d)
      ELSE IF r.parent = ByReplay THEN [S1 EXCEPT !.replay.awaited = Some(d)]
      ELSE PromiseAllSettle(S1, r.parent, outcome, res, err)

\* execute has returned `value`: a raw caller gets it, a category fetch
\* goes on to `await this.cacheService.set(cacheKey, value, { ttl })`.
ExecuteReturned(S, c, value) ==
  LET r == S.calls[c]
  IN  IF r.kind = "fetch" /\ ready
        THEN [StoreSetEx(S, CacheKey(r.cat, r.params),
                         SetTtl(FetchTtl(r.cat)), Stringify(value))
                EXCEPT !.calls[c].pc = "cacheSet", !.calls[c].res = value,
                       !.calls[c].wrote = TRUE]
        ELSE Complete(S, c, "returned", value, "")

ExecuteThrew(S, c, err) == Complete(S, c, "threw", EmptyList, err)

\* execute(operation, fallbackData) up to `await operation()`.
ExecuteEntry(S, c) ==
  LET S1 == [S EXCEPT !.totalRequests = @ + 1]
      st == IF S1.state = OPEN THEN HALF_OPEN ELSE S1.state
  IN  IF Blocked(S1)
        THEN IF S1.calls[c].fb
               THEN ExecuteReturned(S1, c, EmptyList)
               ELSE ExecuteThrew(S1, c, BreakerOpenError)
        ELSE [S1 EXCEPT !.state = st,
                        !.calls[c].pc = "inflight",
                        !.calls[c].invokedIn = st,
                        !.calls[c].sent = upVer]

\* (mutant) with the client not ready the fetch gives up and returns no data
FetchStart_GiveUp(S, cat, p, idx) ==
  LET c == LowestFree(S)
      S1 == [S EXCEPT !.calls[c] =
                [Free EXCEPT !.kind = "fetch", !.cat = cat, !.params = p,
                             !.key = CacheKey(cat, p),
                             !.fb = TRUE, !.parent = idx]]
  IN  IF ready
        THEN [S1 EXCEPT !.calls[c].pc = "cacheGet",
                        !.calls[c].resp = StoreGet(S1, CacheKey(cat, p))]
        ELSE Complete(S1, c, "returned", EmptyList, "")

\* fetchX(params) up to its first suspension.  With the client not ready
\* CacheService.get answers null without a command to the store.
FetchStart(S, cat, p, idx) ==
  LET c == LowestFree(S)
      S1 == [S EXCEPT !.calls[c] =
                [Free EXCEPT !.kind = "fetch", !.cat = cat, !.params = p,
                             !.key = CacheKey(cat, p),
                             !.fb = TRUE, !.parent = idx]]
  IN  IF ready
        THEN [S1 EXCEPT !.calls[c].pc = "cacheGet",
                        !.calls[c].resp = StoreGet(S1, CacheKey(cat, p))]
        ELSE ExecuteEntry(S1, c)

\* fetchX after `await this.cacheService.get(cacheKey)`.
CacheGetReturned(S, c) ==
  LET cachedData == CacheGetResult(S.calls[c].resp)
      S1 == [S EXCEPT !.calls[c].resp = Nothing]
  IN  IF TruthyArr(cachedData)
        THEN Complete([S1 EXCEPT !.calls[c].hit = TRUE], c, "returned",
                      cachedData[1], "")
        ELSE ExecuteEntry(S1, c)

\* ---------------------------------------- CacheService, called directly
\* What a store command is rejected with when the connection fails.
StoreError == "ClientClosedError"

\* (mutant) the catch block of a method passes the error on
CacheCatch_Rethrow(S, c, err) == Complete(S, c, "threw", EmptyList, err)

\* The catch block of a CacheService method: the error is logged and the
\* method returns null, false or nothing.
CacheCatch(S, c, err) == Complete(S, c, "returned", EmptyList, "")

\* get / set / del / delPattern / exists / flush up to the first suspension.
\* With the client not ready the method returns at once; otherwise it sends
\* its command, which gets to the store (`reaches`) or is lost on the way.
CacheOpStart(S, kind, key, val, ttl, reaches, idx) ==
  LET c == LowestFree(S)
      S1 == [S EXCEPT !.calls[c] =
                [Free EXCEPT !.kind = kind, !.key = key, !.pc = "cmd",
                             !.parent = idx, !.sent = upVer]]
  IN  IF ~ready THEN Complete(S1, c, "returned", EmptyList, "")
      ELSE IF ~reaches THEN [S1 EXCEPT !.calls[c].pc = "lost"]
      ELSE CASE kind \in {"get", "exists"} ->
                  [S1 EXCEPT !.calls[c].resp = StoreGet(S1, key)]
             [] kind = "set" ->
                  StoreSetEx(S1, key, SetTtl(ttl), Stringify(val))
             [] kind = "del" -> StoreDel(S1, {key})
             [] kind = "flush" -> [S1 EXCEPT !.cache = {}]
             [] kind = "delPattern" ->
                  [S1 EXCEPT !.calls[c].resp = Some(StoreKeys(S1, key))]

\* The method after the store has answered its command.  delPattern sends
\* client.del(keys) without looking at isReady again.
CacheOpReturned(S, c) ==
  LET r == S.calls[c]
      value == CacheGetResult(r.resp)
  IN  CASE r.kind = "get" ->
             IF value # Nothing
               THEN Complete([S EXCEPT !.calls[c].hit = TRUE], c, "returned",
                             value[1], "")
               ELSE Complete(S, c, "returned", EmptyList, "")
        [] r.kind = "exists" ->
             Complete([S EXCEPT !.calls[c].hit = (r.resp # Nothing)], c,
                      "returned", EmptyList, "")
        [] r.kind = "delPattern" /\ r.pc = "cmd" ->
             IF r.resp[1] = {} THEN Complete(S, c, "returned", EmptyList, "")
             ELSE IF ready
               THEN [StoreDel(S, r.resp[1])
                       EXCEPT !.calls[c].pc = "cmd2",
                              !.calls[c].resp = Nothing]
             ELSE CacheCatch(S, c, StoreError)
        [] OTHER -> Complete(S, c, "returned", EmptyList, "")

\* ------------------------------------------------------------------ actions
\* A caller runs a CacheService method.
cacheOp(kind, key, val, ttl, reaches) ==
  /\ started < MaxCacheOps
  /\ Cardinality(Slots \ FreeSlots(Cur)) < MaxFetchInFlight
  /\ Becomes(CacheOpStart(Cur, kind, key, val, ttl, reaches, Detached))
  /\ started' = started + 1
  /\ UNCHANGED <<envVars, decoderVars>>

\* A request handler awaits cachedOpenf1Client.clearSessionCache(sessionKey),
\* which awaits cacheService.delPattern(`session:${sessionKey}:*`).
clearSessionCache(sessionKey) ==
  /\ ~handler.waiting
  /\ Len(handler.results) < MaxSeq
  /\ FreeSlots(Cur) # {}
  /\ Becomes(CacheOpStart([Cur EXCEPT !.handler.waiting = TRUE],
                          "delPattern", SessionPattern(Some(sessionKey)),
                          EmptyList, 0, TRUE, ByHandler))
  /\ started' = started + 1
  /\ UNCHANGED <<envVars, decoderVars>>

\* The store answers the command a CacheService method is waiting for.
storeReplies(c) ==
  /\ calls[c].kind \in CacheOps
  /\ calls[c].pc \in {"cmd", "cmd2"}
  /\ Becomes(CacheOpReturned(Cur, c))
  /\ UNCHANGED <<envVars, started, decoderVars>>

\* The command a CacheService method is waiting for is rejected.
storeCommandFails(c) ==
  /\ calls[c].kind \in CacheOps
  /\ calls[c].pc \in {"cmd", "cmd2", "lost"}
  /\ Becomes(CacheCatch(Cur, c, StoreError))
  /\ UNCHANGED <<envVars, started, decoderVars>>

\* A caller runs circuitBreaker.execute(operation, fallbackData?).
execute(fb) ==
  /\ started < MaxCalls
  /\ FreeSlots(Cur) # {}
  /\ LET c == LowestFree(Cur)
         S1 == [Cur EXCEPT !.calls[c] =
                   [Free EXCEPT !.kind = "execute", !.fb = fb]]
     IN  Becomes(ExecuteEntry(S1, c))
  /\ started' = started + 1
  /\ UNCHANGED <<envVars, decoderVars>>

\* A caller runs cachedOpenf1Client.fetchX(params).
fetch(cat, p) ==
  /\ started < MaxFetches
  /\ Cardinality(Slots \ FreeSlots(Cur)) < MaxFetchInFlight
  /\ Becomes(FetchStart(Cur, cat, p, Detached))
  /\ started' = started + 1
  /\ UNCHANGED <<envVars, decoderVars>>

\* A request handler awaits one more fetchX(params) after the previous one
\* has returned.
handlerFetch(cat, p) ==
  /\ ~handler.waiting
  /\ Len(handler.results) < MaxSeq
  /\ FreeSlots(Cur) # {}
  /\ Becomes(FetchStart([Cur EXCEPT !.handler.waiting = TRUE], cat, p,
                        ByHandler))
  /\ started' = started + 1
  /\ UNCHANGED <<envVars, decoderVars>>

\* A caller runs fetchX(params) when no other call is in progress.
fetchAlone(cat, p) ==
  /\ started < MaxTtlFetches
  /\ FreeSlots(Cur) = Slots
  /\ Becomes(FetchStart(Cur, cat, p, Detached))
  /\ started' = started + 1
  /\ UNCHANGED <<envVars, decoderVars>>

\* preloadReplayData(sessionKey) up to `await Promise.all([...])`: the four
\* fetches are started one after the other.
PreloadStart(S, sessionKey) ==
  LET p == [NoParams EXCEPT !.session_key = Some(sessionKey)]
      S0 == [S EXCEPT !.preload =
                [status |-> "pending", sessionKey |-> sessionKey,
                 results |-> [i \in 1..Len(PreloadCats) |-> Nothing],
                 error |-> ""]]
      S1 == FetchStart(S0, PreloadCats[1], p, 1)
      S2 == FetchStart(S1, PreloadCats[2], p, 2)
      S3 == FetchStart(S2, PreloadCats[3], p, 3)
  IN  FetchStart(S3, PreloadCats[4], p, 4)

\* A caller runs cachedOpenf1Client.preloadReplayData(sessionKey).
preloadReplayData(sessionKey) ==
  /\ started < MaxPreloads
  /\ preload.status # "pending"
  /\ FreeSlots(Cur) = Slots
  /\ Becomes(PreloadStart(Cur, sessionKey))
  /\ started' = started + 1
  /\ UNCHANGED <<envVars, decoderVars>>

\* ------------------------------------------- SessionsService.startReplay
NotFoundError == "HttpException(NOT_FOUND)"

\* startReplay ends: with its response, or with the error it throws
\* (executeWithErrorHandling passes an HttpException on as it is).
ReplayEnds(S, err) ==
  [S EXCEPT !.replay.pc = "done", !.replay.error = err,
            !.replay.awaited = Nothing]

\* `await this.cachedOpenf1Client.preloadReplayData(sessionKey)` is reached.
ReplayPreloads(S) ==
  PreloadStart([S EXCEPT !.replay.pc = "preload",
                         !.replay.awaited = Nothing],
               S.replay.sessionKey)

\* validateSession(sessionKey, 'replay data') up to its await: the drivers
\* of the session are fetched once more.
validateSession(S) ==
  FetchStart([S EXCEPT !.replay.pc = "validate", !.replay.awaited = Nothing],
             "drivers",
             [NoParams EXCEPT !.session_key = Some(S.replay.sessionKey)],
             ByReplay)

\* startReplay after `await this.getSessionDrivers(sessionKey)` settled with
\* r (transformDriverData maps the drivers one to one).
AfterGetSessionDrivers(S, r) ==
  IF r.outcome = "threw" THEN ReplayEnds(S, r.err)
  ELSE LET S1 == [S EXCEPT !.replay.drivers = Some(r.res)]
       IN  IF Len(r.res) = 0 THEN validateSession(S1) ELSE ReplayPreloads(S1)

\* startReplay after `await this.validateSession(...)` settled with r.
AfterValidateSession(S, r) ==
  IF r.outcome = "threw" THEN ReplayEnds(S, r.err)
  ELSE IF Len(r.res) = 0 THEN ReplayEnds(S, NotFoundError)
  ELSE ReplayPreloads(S)

\* A client asks for the replay of a session: startReplay(sessionKey) up
\* to the await in getSessionDrivers.
startReplay(sessionKey) ==
  /\ started < MaxReplays
  /\ replay.pc \in {"idle", "done"}
  /\ FreeSlots(Cur) = Slots
  /\ Becomes(FetchStart([Cur EXCEPT !.replay =
                           [NoReplay EXCEPT !.pc = "drivers",
                                            !.sessionKey = sessionKey]],
                        "drivers",
                        [NoParams EXCEPT !.session_key = Some(sessionKey)],
                        ByReplay))
  /\ started' = started + 1
  /\ UNCHANGED <<envVars, decoderVars>>

\* startReplay resumes from the await it was suspended at.
startReplayResumes ==
  /\ \/ replay.awaited # Nothing
     \/ replay.pc = "preload" /\ preload.status \in {"resolved", "rejected"}
  /\ Becomes(CASE replay.pc = "drivers" ->
                   AfterGetSessionDrivers(Cur, replay.awaited[1])
              [] replay.pc = "validate" ->
                   AfterValidateSession(Cur, replay.awaited[1])
              [] replay.pc = "preload" ->
                   ReplayEnds(Cur, IF preload.status = "rejected"
                                     THEN preload.error ELSE ""))
  /\ UNCHANGED <<envVars, started, decoderVars>>

\* The store answers a GET.
cacheGetReturns(c) ==
  /\ calls[c].pc = "cacheGet"
  /\ Becomes(CacheGetReturned(Cur, c))
  /\ UNCHANGED <<envVars, started, decoderVars>>

\* The store answers a SETEX: fetchX returns what it fetched.
cacheSetReturns(c) ==
  /\ calls[c].pc = "cacheSet"
  /\ Becomes(Complete(Cur, c, "returned", calls[c].res, ""))
  /\ UNCHANGED <<envVars, started, decoderVars>>

\* The awaited operation resolves: the rest of the try block.
operationResolves(c) ==
  /\ calls[c].pc = "inflight"
  /\ Becomes(ExecuteReturned(onSuccess(Cur), c,
                             Upstream(calls[c].cat, calls[c].params)))
  /\ UNCHANGED <<envVars, started, decoderVars>>

\* The awaited operation resolves with what the upstream API read when the
\* request reached it, and its data has changed since.
operationResolvesStale(c) ==
  /\ calls[c].pc = "inflight"
  /\ calls[c].sent < upVer
  /\ Becomes(ExecuteReturned(onSuccess(Cur), c,
                             UpstreamAt(calls[c].cat, calls[c].params,
                                        calls[c].sent)))
  /\ UNCHANGED <<envVars, started, decoderVars>>

\* The awaited operation rejects (non-2xx, network error, timeout): the
\* catch block.
operationRejects(c) ==
  /\ calls[c].pc = "inflight"
  /\ LET S1 == onFailure(Cur)
         S2 == [S1 EXCEPT !.calls[c].fcAfter = S1.failureCount]
     IN  IF UseFallback(calls[c].fb, S2.failureCount)
           THEN Becomes(ExecuteReturned(S2, c, EmptyList))
           ELSE Becomes(ExecuteThrew(S2, c, UpstreamError))
  /\ UNCHANGED <<envVars, started, decoderVars>>

\* (mutant) reset leaves the request counters as they are
reset_KeepStats(S) ==
  [S EXCEPT !.state = CLOSED, !.failureCount = 0,
            !.lastFailureTime = Nothing]

\* CircuitBreakerService.reset()
reset(S) ==
  [S EXCEPT !.state = CLOSED, !.failureCount = 0,
            !.lastFailureTime = Nothing, !.totalRequests = 0,
            !.successfulRequests = 0, !.failedRequests = 0]

\* An operator runs openf1Client.resetCircuitBreaker().
resetCircuitBreaker ==
  /\ Becomes(reset(Cur))
  /\ UNCHANGED <<envVars, started, decoderVars>>

\* Time passes.
Tick ==
  /\ now + TickMs <= MaxNow
  /\ now' = now + TickMs
  /\ UNCHANGED <<state, failureCount, lastFailureTime, totalRequests,
                 successfulRequests, failedRequests, cache, ready, calls,
                 preload, handler, replay, done, upVer, started,
                 decoderVars>>

\* A long time passes.
TickLong ==
  /\ now + LongTickMs <= MaxLongNow
  /\ now' = now + LongTickMs
  /\ UNCHANGED <<state, failureCount, lastFailureTime, totalRequests,
                 successfulRequests, failedRequests, cache, ready, calls,
                 preload, handler, replay, done, upVer, started,
                 decoderVars>>

\* The connection to the store is established.
storeUp ==
  /\ ~ready
  /\ ready' = TRUE
  /\ UNCHANGED <<state, failureCount, lastFailureTime, totalRequests,
                 successfulRequests, failedRequests, cache, calls,
                 preload, handler, replay, done, now, upVer, started,
                 decoderVars>>

\* The connection to the store is lost: the commands waiting for an answer
\* are rejected, and CacheService.get catches the error and returns null.
storeDown ==
  /\ ready
  /\ ready' = FALSE
  /\ calls' = [c \in Slots |->
                 IF calls[c].pc = "cacheGet"
                   THEN [calls[c] EXCEPT !.resp = Nothing] ELSE calls[c]]
  /\ UNCHANGED <<state, failureCount, lastFailureTime, totalRequests,
                 successfulRequests, failedRequests, cache,
                 preload, handler, replay, done, now, upVer, started,
                 decoderVars>>

\* The upstream API serves new data.
upstreamUpdate ==
  /\ upVer < MaxVer
  /\ upVer' = upVer + 1
  /\ UNCHANGED <<state, failureCount, lastFailureTime, totalRequests,
                 successfulRequests, failedRequests, cache, ready, calls,
                 preload, handler, replay, done, now, started,
                 decoderVars>>

\* ------------------------------------------------- F1TransformationsUtil
NoRow == [kind |-> "none"]

DRS_MAPPING ==
  0 :> [enabled |-> FALSE, available |-> FALSE] @@
  1 :> [enabled |-> FALSE, available |-> FALSE] @@
  8 :> [enabled |-> FALSE, available |-> TRUE] @@
  10 :> [enabled |-> TRUE, available |-> TRUE] @@
  12 :> [enabled |-> TRUE, available |-> TRUE] @@
  14 :> [enabled |-> TRUE, available |-> TRUE]

SEGMENT_MAPPING ==
  0 :> [color |-> "none", meaning |-> "not available",
        performance |-> "neutral"] @@
  2048 :> [color |-> "yellow", meaning |-> "yellow sector",
           performance |-> "neutral"] @@
  2049 :> [color |-> "green", meaning |-> "green sector",
           performance |-> "best"] @@
  2051 :> [color |-> "purple", meaning |-> "purple sector",
           performance |-> "personal_best"] @@
  2064 :> [color |-> "pit", meaning |-> "pitlane", performance |-> "pit"]

PIT_SEGMENT_VALUE == 2064

SectorPerformance == {"personal_best", "best", "neutral", "pit"}

\* (mutant) every code above 1 counts as DRS enabled
transformDRS_EnabledAboveOne(drsValue) ==
  IF drsValue = Nothing
    THEN [enabled |-> FALSE, available |-> FALSE]
    ELSE IF drsValue[1] \in DOMAIN DRS_MAPPING
      THEN [enabled |-> drsValue[1] > 1,
            available |-> DRS_MAPPING[drsValue[1]].available]
      ELSE [enabled |-> FALSE, available |-> FALSE]

\* transformDRS(drsValue): DRS_MAPPING[drsValue] || both false
transformDRS(drsValue) ==
  IF drsValue = Nothing
    THEN [enabled |-> FALSE, available |-> FALSE]
    ELSE IF drsValue[1] \in DOMAIN DRS_MAPPING
      THEN DRS_MAPPING[drsValue[1]]
      ELSE [enabled |-> FALSE, available |-> FALSE]

\* One element of the map in transformSegments.
TransformedSegment(segment) ==
  IF segment \in DOMAIN SEGMENT_MAPPING
    THEN [value |-> segment,
          color |-> SEGMENT_MAPPING[segment].color,
          meaning |-> SEGMENT_MAPPING[segment].meaning,
          performance |-> SEGMENT_MAPPING[segment].performance]
    ELSE [value |-> segment, color |-> "unknown",
          meaning |-> "unknown segment", performance |-> "neutral"]

\* (mutant) the codes that are not in the table are left out
transformSegments_KnownOnly(segments) ==
  IF segments = Nothing
    THEN <<>>
    ELSE SelectSeq([i \in 1..Len(segments[1]) |->
                      TransformedSegment(segments[1][i])],
                   LAMBDA t : t.value \in DOMAIN SEGMENT_MAPPING)

\* transformSegments(segments), segments an array or null
transformSegments(segments) ==
  IF segments = Nothing
    THEN <<>>
    ELSE [i \in 1..Len(segments[1]) |-> TransformedSegment(segments[1][i])]

\* detectPitLane(...segmentArrays)
detectPitLane(segmentArrays) ==
  \E a \in 1..Len(segmentArrays) :
     /\ segmentArrays[a] # Nothing
     /\ \E i \in 1..Len(segmentArrays[a][1]) :
           segmentArrays[a][1][i] = PIT_SEGMENT_VALUE

detectPitOutLap(sector1, sector2, sector3) ==
  \/ detectPitLane(<<sector1>>)
  \/ detectPitLane(<<sector2>>) /\ ~detectPitLane(<<sector3>>)

analyzeSectorPerformance(segments) ==
  IF segments = Nothing
    THEN "neutral"
    ELSE LET transformedSegments == transformSegments(segments)
             Has(p) == \E i \in 1..Len(transformedSegments) :
                          transformedSegments[i].performance = p
         IN IF Has("personal_best") THEN "personal_best"
            ELSE IF Has("best") THEN "best"
            ELSE IF Has("pit") THEN "pit"
            ELSE "neutral"

\* transformCarData(carData), the telemetry fields that are copied left out
transformCarData ==
  /\ raw.kind = "car"
  /\ transformed = NoRow
  /\ transformed' =
       [kind |-> "car",
        drs |-> [value |-> raw.drs,
                 enabled |-> transformDRS(raw.drs).enabled,
                 available |-> transformDRS(raw.drs).available]]
  /\ UNCHANGED <<state, failureCount, lastFailureTime, totalRequests,
                 successfulRequests, failedRequests, cache, ready, calls,
                 preload, handler, replay, done, now, upVer, started, raw>>

\* transformLapData(lapData), the timing fields that are copied left out
transformLapData ==
  /\ raw.kind = "lap"
  /\ transformed = NoRow
  /\ transformed' =
       [kind |-> "lap",
        isPitOutLap |-> detectPitOutLap(raw.segments_sector_1,
                                        raw.segments_sector_2,
                                        raw.segments_sector_3),
        isPitLane |-> detectPitLane(<<raw.segments_sector_1,
                                      raw.segments_sector_2,
                                      raw.segments_sector_3>>),
        segments |->
          [sector1 |-> transformSegments(raw.segments_sector_1),
           sector2 |-> transformSegments(raw.segments_sector_2),
           sector3 |-> transformSegments(raw.segments_sector_3)],
        sectorPerformance |->
          [sector1 |-> analyzeSectorPerformance(raw.segments_sector_1),
           sector2 |-> analyzeSectorPerformance(raw.segments_sector_2),
           sector3 |-> analyzeSectorPerformance(raw.segments_sector_3)]]
  /\ UNCHANGED <<state, failureCount, lastFailureTime, totalRequests,
                 successfulRequests, failedRequests, cache, ready, calls,
                 preload, handler, replay, done, now, upVer, started, raw>>

\* The state after construction: breaker CLOSED with zero counters, the
\* Redis client created but not yet connected.
Init ==
  /\ state = CLOSED
  /\ failureCount = 0
  /\ lastFailureTime = Nothing
  /\ totalRequests = 0
  /\ successfulRequests = 0
  /\ failedRequests = 0
  /\ cache = {}
  /\ ready = FALSE
  /\ calls = [c \in Slots |-> Free]
  /\ preload = NoPreload
  /\ handler = NoHandler
  /\ replay = NoReplay
  /\ done = <<>>
  /\ now = StartTime
  /\ upVer = 0
  /\ started = 0
  /\ raw = NoRow
  /\ transformed = NoRow

\* ---- the breaker under concurrent execute calls
Next ==
  \/ \E fb \in BOOLEAN : execute(fb)
  \/ \E c \in Slots : operationResolves(c)
  \/ \E c \in Slots : operationRejects(c)
  \/ Tick

Spec == Init /\ [][Next]_vars

\* ---- the breaker under concurrent execute calls (of callers that give no
\* fallback) and manual resets
NextReset ==
  \/ execute(FALSE)
  \/ \E c \in Slots : operationResolves(c)
  \/ \E c \in Slots : operationRejects(c)
  \/ resetCircuitBreaker
  \/ Tick

SpecReset == Init /\ [][NextReset]_vars

\* ---- the cache-aside read path; the clock stands still, so the fetches of
\* one behaviour follow each other within the shortest TTL and within the
\* recovery interval, and the upstream data does not change meanwhile
FetchInputs ==
  {<<"drivers", [NoParams EXCEPT !.session_key = Some(1)]>>,
   <<"laps", [NoParams EXCEPT !.session_key = Some(1)]>>}

NextFetch ==
  \/ \E i \in FetchInputs : fetch(i[1], i[2])
  \/ \E c \in Slots : cacheGetReturns(c)
  \/ \E c \in Slots : cacheSetReturns(c)
  \/ \E c \in Slots : operationResolves(c)
  \/ \E c \in Slots : operationRejects(c)
  \/ storeUp
  \/ storeDown

SpecFetch == Init /\ [][NextFetch]_vars

\* ---- the replay preload
Sessions == {1}

NextPreload ==
  \/ \E s \in Sessions : preloadReplayData(s)
  \/ \E c \in Slots : cacheGetReturns(c)
  \/ \E c \in Slots : cacheSetReturns(c)
  \/ \E c \in Slots : operationResolves(c)
  \/ \E c \in Slots : operationRejects(c)
  \/ storeUp
  \/ storeDown

SpecPreload == Init /\ [][NextPreload]_vars

\* ---- a handler that awaits its fetches one after the other, with the store
\* staying connected once it is
NextSeq ==
  \/ \E i \in FetchInputs : handlerFetch(i[1], i[2])
  \/ \E c \in Slots : cacheGetReturns(c)
  \/ \E c \in Slots : cacheSetReturns(c)
  \/ \E c \in Slots : operationResolves(c)
  \/ \E c \in Slots : operationRejects(c)
  \/ storeUp
  \/ upstreamUpdate

SpecSeq == Init /\ [][NextSeq]_vars

\* ---- fetches made one at a time, over a time in which cache entries expire
\* and the breaker recovers
TtlInputs ==
  {<<"intervals", [NoParams EXCEPT !.session_key = Some(1)]>>,
   <<"laps", [NoParams EXCEPT !.session_key = Some(1)]>>}

NextTtl ==
  \/ \E i \in TtlInputs : fetchAlone(i[1], i[2])
  \/ \E c \in Slots : cacheGetReturns(c)
  \/ \E c \in Slots : cacheSetReturns(c)
  \/ \E c \in Slots : operationResolves(c)
  \/ \E c \in Slots : operationRejects(c)
  \/ storeUp
  \/ TickLong

SpecTtl == Init /\ [][NextTtl]_vars

\* ---- every category fetched while the store is never connected
OneSession == [NoParams EXCEPT !.session_key = Some(1)]

DownInputs ==
  {<<"sessions", OneSession>>,
   <<"drivers", OneSession>>,
   <<"laps", OneSession>>,
   <<"car_data", [OneSession EXCEPT !.driver_number = Some(44)]>>,
   <<"intervals", OneSession>>,
   <<"race_control", OneSession>>,
   <<"stints", OneSession>>}

NextDown ==
  \/ \E i \in DownInputs : fetch(i[1], i[2])
  \/ \E c \in Slots : operationResolves(c)
  \/ \E c \in Slots : operationRejects(c)

SpecDown == Init /\ [][NextDown]_vars

\* ---- CacheService called directly while the store goes up and down
CacheOpInputs ==
  LET keys == {generateSessionKey(Some(1), "drivers"),
               generateRaceControlCacheKey(OneSession)}
  IN  {<<"set", key>> : key \in keys}
        \cup {<<k, generateSessionKey(Some(1), "drivers")>> :
                 k \in {"get", "del", "exists"}}
        \cup {<<"delPattern", SessionPattern(Some(1))>>, <<"flush", <<>>>>}

CacheValues == {<<"x">>}
TtlOptions == {0, 600}

NextCache ==
  \/ \E i \in CacheOpInputs, val \in CacheValues, ttl \in TtlOptions,
        reaches \in BOOLEAN : cacheOp(i[1], i[2], val, ttl, reaches)
  \/ \E c \in Slots : storeReplies(c)
  \/ \E c \in Slots : storeCommandFails(c)
  \/ storeUp
  \/ storeDown

SpecCache == Init /\ [][NextCache]_vars

\* ---- a handler whose fetches are of every category and differ in their
\* query parameters
KeyInputs ==
  LET d44 == [OneSession EXCEPT !.driver_number = Some(44)]
  IN  {<<"drivers", OneSession>>, <<"drivers", d44>>,
       <<"laps", OneSession>>, <<"laps", d44>>,
       <<"laps", [OneSession EXCEPT !.lap_number = Some(5)]>>,
       <<"laps", [d44 EXCEPT !.lap_number = Some(5)]>>,
       <<"car_data", d44>>,
       <<"car_data", [OneSession EXCEPT !.driver_number = Some(1)]>>,
       <<"car_data", [d44 EXCEPT !.date_start = Some("2024-03-02T15:00")]>>,
       <<"stints", OneSession>>, <<"stints", d44>>,
       <<"intervals", OneSession>>,
       <<"intervals", [OneSession EXCEPT !.date = Some("2024-03-02T15:00")]>>,
       <<"sessions", OneSession>>, <<"race_control", OneSession>>}

NextKeys ==
  \/ \E i \in KeyInputs : handlerFetch(i[1], i[2])
  \/ \E c \in Slots : cacheGetReturns(c)
  \/ \E c \in Slots : cacheSetReturns(c)
  \/ \E c \in Slots : operationResolves(c)
  \/ storeUp

SpecKeys == Init /\ [][NextKeys]_vars

\* ---- a handler that fetches a session's data and invalidates the session
ClearInputs ==
  {<<"drivers", OneSession>>,
   <<"laps", OneSession>>,
   <<"car_data", [OneSession EXCEPT !.driver_number = Some(44)]>>,
   <<"intervals", OneSession>>,
   <<"race_control", OneSession>>,
   <<"stints", OneSession>>}

NextClear ==
  \/ \E i \in ClearInputs : handlerFetch(i[1], i[2])
  \/ \E s \in Sessions : clearSessionCache(s)
  \/ \E c \in Slots : cacheGetReturns(c)
  \/ \E c \in Slots : cacheSetReturns(c)
  \/ \E c \in Slots : operationResolves(c)
  \/ \E c \in Slots : storeReplies(c)
  \/ storeUp

SpecClear == Init /\ [][NextClear]_vars

\* ================================================================== claims
Latest == done[1]
Completed == Len(done) > 0

\* The preload's category fetches have all settled.
ChildrenSettled == \A c \in Slots : calls[c].parent = 0
Fulfilled == {i \in DOMAIN preload.results : preload.results[i] # Nothing}

\* One category's fetch failed with the upstream failure propagated (the
\* counter was below the threshold) and the three others fetched records.
OneCategoryFailed ==
  /\ preload.status \in {"resolved", "rejected"}
  /\ ChildrenSettled
  /\ Cardinality(Fulfilled) = Len(PreloadCats) - 1
  /\ \A i \in Fulfilled : preload.results[i][1] # EmptyList

\* C1: when one category's fetch ends in a propagated failure and the other
\* categories' fetches succeed, preloadReplayData still returns a result, with
\* the empty list for the failed category and the fetched records for the
\* others; it never fails.
C1_PreloadSurvivesOneFailure ==
  OneCategoryFailed =>
    /\ preload.status = "resolved"
    /\ \A i \in DOMAIN preload.results :
          i \notin Fulfilled => preload.results[i] = Some(EmptyList)

\* The upstream was unavailable for a completed call: its operation failed,
\* or the OPEN breaker did not let it through.
OperationFailed(r) == r.fcAfter # -1
Rejected(r) == ~r.hit /\ r.invokedIn = "-"
ReturnedEmpty(r) == r.outcome = "returned" /\ r.res = EmptyList

\* C2 (as stated): a category fetch supplies the empty list as fallback, and
\* whenever the upstream is unavailable the caller sees empty data, never an
\* exception.
C2_NoExceptionWhenUnavailable ==
  \A i \in DOMAIN done :
    done[i].kind = "fetch" /\ (OperationFailed(done[i]) \/ Rejected(done[i]))
      => done[i].fb /\ ReturnedEmpty(done[i])

\* C2 (amended): a category fetch supplies the empty list as fallback; when
\* the upstream is unavailable the caller sees empty data if the breaker
\* rejected the call or if the failure left the consecutive-failure counter
\* at or above the threshold, and otherwise the upstream failure itself.
C2_EmptyOnlyAtThreshold ==
  \A i \in DOMAIN done :
    done[i].kind = "fetch" =>
      /\ done[i].fb
      /\ Rejected(done[i]) => ReturnedEmpty(done[i])
      /\ OperationFailed(done[i]) /\ done[i].fcAfter >= failureThreshold
            => ReturnedEmpty(done[i])
      /\ OperationFailed(done[i]) /\ done[i].fcAfter < failureThreshold
            => done[i].outcome = "threw" /\ done[i].err = UpstreamError

\* A fetch whose upstream call failed at the threshold got the empty list.
C2_Witness ==
  /\ Completed
  /\ Latest.kind = "fetch"
  /\ OperationFailed(Latest)
  /\ Latest.fcAfter >= failureThreshold
  /\ ReturnedEmpty(Latest)

\* ---- steps of the breaker, told by the counter each of them moves
ExecuteStep == totalRequests' = totalRequests + 1
SuccessStep == successfulRequests' = successfulRequests + 1
FailureStep == failedRequests' = failedRequests + 1
InFlight == {c \in Slots : calls[c].pc = "inflight"}
Elapsed == now - lastFailureTime[1]

\* C3: from CLOSED with the counter at 0, failing execute calls leave the
\* state CLOSED while the counter is below the threshold, and the failure
\* that brings the counter to the threshold makes it OPEN.
C3_OpensExactlyAtThreshold ==
  /\ [](state = CLOSED => failureCount < failureThreshold)
  /\ [][FailureStep /\ state = CLOSED =>
          /\ failureCount' = failureCount + 1
          /\ state' = IF failureCount + 1 = failureThreshold
                         THEN OPEN ELSE CLOSED]_vars

\* Five failing calls and nothing else: the fifth opened the breaker.
C3_Witness ==
  /\ state = OPEN
  /\ failureCount = failureThreshold
  /\ failedRequests = failureThreshold
  /\ totalRequests = failureThreshold
  /\ successfulRequests = 0

\* C4: an execute call made while the state is OPEN and less than the
\* recovery interval has passed since the last failure does not invoke its
\* action; it returns the fallback if there is one and fails with the
\* breaker-open error (not the upstream's) if not; the state stays OPEN.
C4_OpenRejects ==
  [][ExecuteStep /\ state = OPEN /\ lastFailureTime # Nothing
        /\ Elapsed < recoveryTimeout =>
        /\ state' = OPEN
        /\ calls' = calls
        /\ successfulRequests' = successfulRequests
        /\ failedRequests' = failedRequests
        /\ failureCount' = failureCount
        /\ Len(done') > 0
        /\ done'[1].invokedIn = "-"
        /\ IF done'[1].fb
              THEN done'[1].outcome = "returned" /\ done'[1].res = EmptyList
              ELSE /\ done'[1].outcome = "threw"
                   /\ done'[1].err = BreakerOpenError
                   /\ done'[1].err # UpstreamError]_vars

\* A call without fallback was rejected by the OPEN breaker, some time after
\* the last failure but before the recovery interval was over.
C4_Witness ==
  /\ Completed
  /\ Latest.kind = "execute"
  /\ ~Latest.fb
  /\ Latest.invokedIn = "-"
  /\ Latest.err = BreakerOpenError
  /\ state = OPEN
  /\ lastFailureTime # Nothing
  /\ Elapsed > 0
  /\ Elapsed < recoveryTimeout

\* C5: once the breaker is OPEN and the recovery interval has passed, the
\* action is invoked once as a probe: while the probe is in flight (state
\* HALF_OPEN) no other execute call invokes its action.
C5_SingleProbe ==
  state = HALF_OPEN =>
    Cardinality({c \in InFlight : calls[c].invokedIn = HALF_OPEN}) <= 1

\* C6: when an action that was invoked in HALF_OPEN settles while the state
\* is still HALF_OPEN, a success leaves the state CLOSED and a failure leaves
\* it OPEN.
C6_ProbeDecides ==
  [][\A c \in InFlight :
       /\ calls[c].invokedIn = HALF_OPEN
       /\ state = HALF_OPEN
       /\ calls'[c].pc # "inflight"
       => /\ SuccessStep => state' = CLOSED
          /\ FailureStep => state' = OPEN]_vars

\* C7: when the action fails, execute returns the fallback exactly if one
\* was supplied and the counter, this failure counted, has reached the
\* threshold; otherwise the caller gets the action's own failure.
C7_FallbackIffThreshold ==
  \A i \in DOMAIN done :
    done[i].kind = "execute" /\ OperationFailed(done[i]) =>
      IF done[i].fb /\ done[i].fcAfter >= failureThreshold
        THEN ReturnedEmpty(done[i])
        ELSE done[i].outcome = "threw" /\ done[i].err = UpstreamError

\* An action failed with the counter reaching the threshold and a fallback
\* at hand: the caller got the fallback.
C7_Witness ==
  /\ Completed
  /\ Latest.kind = "execute"
  /\ Latest.fb
  /\ Latest.fcAfter >= failureThreshold
  /\ ReturnedEmpty(Latest)

\* C8: a successful action sets the consecutive-failure counter to zero,
\* whatever it was and whatever the state; so after two successes in a row
\* it is still zero.
C8_SuccessResetsCounter ==
  [][SuccessStep => failureCount' = 0]_vars

\* A success has just cleared a counter that had reached the threshold: the
\* breaker is still OPEN with the counter at 0.
C8_Witness ==
  /\ Completed
  /\ Latest.outcome = "returned"
  /\ Latest.invokedIn = CLOSED
  /\ ~OperationFailed(Latest)
  /\ state = OPEN
  /\ failureCount = 0
  /\ failedRequests >= failureThreshold

\* ---- the handler's consecutive fetches
SameRequest(a, b) == a.cat = b.cat /\ a.params = b.params
FetchedAndCached(r) ==
  /\ r.outcome = "returned"
  /\ ~r.hit
  /\ r.invokedIn # "-"
  /\ ~OperationFailed(r)
  /\ r.wrote
Pairs == {i \in DOMAIN handler.results : i + 1 \in DOMAIN handler.results}

\* C9: with the cache reachable and the upstream call succeeding, two
\* fetches of the same category and params, one after the other, make one
\* upstream call: the first misses, calls upstream and writes the cache, the
\* second is served from the cache and returns the same records.
C9_SecondFetchIsHit ==
  \A i \in Pairs :
    LET first == handler.results[i]
        second == handler.results[i + 1]
    IN  SameRequest(first, second) /\ FetchedAndCached(first) =>
          /\ second.outcome = "returned"
          /\ second.hit
          /\ second.invokedIn = "-"
          /\ second.res = first.res

\* The second fetch returned the first one's records from the cache although
\* the upstream data had changed in between.
C9_Witness ==
  \E i \in Pairs :
    /\ SameRequest(handler.results[i], handler.results[i + 1])
    /\ FetchedAndCached(handler.results[i])
    /\ handler.results[i + 1].hit
    /\ handler.results[i + 1].res = handler.results[i].res
    /\ handler.results[i].res[1].ver < upVer
    /\ totalRequests = 1

\* C10: a fetch that finds its key in the cache returns the cached records
\* and neither calls upstream nor touches the breaker: state, failure
\* counter, last-failure time and the three request counters stay as they
\* are, also while the breaker is OPEN.
C10_HitBypassesBreaker ==
  [][\A c \in Slots :
       /\ calls[c].pc = "cacheGet"
       /\ calls[c].resp # Nothing
       /\ calls'[c].pc # "cacheGet"
       => /\ UNCHANGED <<state, failureCount, lastFailureTime,
                          totalRequests, successfulRequests, failedRequests>>
          /\ calls'[c] = Free
          /\ \A d \in Slots \ {c} : calls'[d] = calls[d]
          /\ Len(done') > 0
          /\ done'[1].hit
          /\ done'[1].outcome = "returned"
          /\ done'[1].res = Parse(calls[c].resp[1])
          /\ done'[1].invokedIn = "-"]_vars

\* A fetch was served from the cache while the breaker was OPEN.
C10_Witness ==
  /\ Completed
  /\ Latest.kind = "fetch"
  /\ Latest.hit
  /\ Latest.outcome = "returned"
  /\ state = OPEN

\* ---- steps of a fetch
BreakerVars ==
  <<state, failureCount, lastFailureTime,
    totalRequests, successfulRequests, failedRequests>>

\* The fetch in slot c gets the empty-list fallback from the breaker-guarded
\* upstream call: its operation failed, or the OPEN breaker rejected it after
\* the cache had answered with a miss.
FallbackStep(c) ==
  /\ calls[c].kind = "fetch"
  /\ \/ calls[c].pc = "inflight" /\ FailureStep
     \/ calls[c].pc = "cacheGet" /\ ExecuteStep /\ calls'[c].pc # "inflight"
  /\ calls'[c] # calls[c]
  /\ ~(calls'[c].pc = "idle" /\ done'[1].outcome = "threw")

\* A fetch is started in slot c.
StartStep(c) ==
  /\ started' = started + 1
  /\ FreeSlots(Cur) # {}
  /\ c = LowestFree(Cur)

EmptyEntry(e) == e.val = Stringify(EmptyList)

WriteStep(c) ==
  /\ calls[c].kind = "fetch"
  /\ calls[c].pc # "cacheSet"
  /\ calls'[c].pc = "cacheSet"

\* The cache after the fetch in slot c has written `val`.
Written(c, val) ==
  LET key == CacheKey(calls[c].cat, calls[c].params)
  IN  {e \in cache : e.key # key}
        \cup {[key |-> key, val |-> Stringify(val),
                exp |-> now + FetchTtl(calls[c].cat) * 1000]}

\* The upstream call of the fetch in slot c fails and the failure is passed
\* on to the caller.
PropagatedFailureStep(c) ==
  /\ calls[c].kind = "fetch"
  /\ calls[c].pc = "inflight"
  /\ calls'[c] # calls[c]
  /\ FailureStep
  /\ failureCount' < failureThreshold

\* C12 (as stated): the cache contents change only in a step in which an
\* upstream call succeeds; a fetch whose upstream call failed or was rejected
\* by the OPEN breaker leaves them as they are.
C12_WriteOnlyAfterSuccess ==
  [][cache' # cache => SuccessStep]_vars

\* C12 (amended): a fetch creates or overwrites its entry when its
\* breaker-guarded call returns a value with the store reachable: the records
\* of a successful upstream call, or the empty-list fallback when the call
\* failed at the threshold or was rejected by the OPEN breaker; a fetch whose
\* upstream failure is passed on to the caller leaves the cache unchanged.
C12_WriteOnlyAfterReturn ==
  [][/\ cache' # cache =>
          \E c \in Slots :
            /\ WriteStep(c)
            /\ SuccessStep \/ FallbackStep(c)
            /\ cache' = Written(c, calls'[c].res)
     /\ \A c \in Slots :
          /\ ready /\ calls[c].kind = "fetch" /\ calls[c].pc = "inflight"
               /\ calls'[c] # calls[c] /\ SuccessStep
               => /\ WriteStep(c)
                  /\ calls'[c].res # EmptyList
                  /\ cache' = Written(c, calls'[c].res)
          /\ ready /\ FallbackStep(c)
               => WriteStep(c) /\ cache' = Written(c, EmptyList)
          /\ PropagatedFailureStep(c)
               => /\ cache' = cache
                  /\ calls'[c] = Free
                  /\ done'[1].outcome = "threw"]_vars

\* A fetch whose upstream call failed at the threshold has written the
\* empty list over the records an earlier fetch had cached under its key.
C12_Witness ==
  /\ Completed
  /\ Latest.kind = "fetch"
  /\ OperationFailed(Latest)
  /\ ReturnedEmpty(Latest)
  /\ Latest.wrote
  /\ successfulRequests = 1
  /\ \A e \in cache : EmptyEntry(e)
  /\ cache # {}

\* The outcome execute gives a category fetch, as its caller sees it.
ExecuteOutcome(r) ==
  IF Rejected(r) THEN ReturnedEmpty(r)
  ELSE IF OperationFailed(r)
    THEN IF r.fcAfter >= failureThreshold
           THEN ReturnedEmpty(r)
           ELSE r.outcome = "threw" /\ r.err = UpstreamError
  ELSE /\ r.outcome = "returned"
       /\ Len(r.res) = 1
       /\ r.res[1].cat = r.cat
       /\ r.res[1].params = r.params

\* C13: while the store is never reachable, every fetch of every category
\* enters execute as on a miss (no command goes to the store, nothing is
\* served from or written to the cache), and what its caller gets is what
\* execute gave: the upstream records, the fallback, or the upstream failure,
\* never a failure of the cache.
C13_StoreDownAlwaysMiss ==
  /\ [](~ready => /\ cache = {}
                  /\ totalRequests = started
                  /\ \A c \in Slots : calls[c].pc \in {"idle", "inflight"}
                  /\ \A i \in DOMAIN done :
                        /\ ~done[i].hit
                        /\ ~done[i].wrote
                        /\ ExecuteOutcome(done[i])
                        /\ done[i].outcome = "threw"
                              => done[i].err = UpstreamError)
  /\ [][\A c \in Slots : ~ready /\ StartStep(c) => ExecuteStep]_vars

\* Fetches were made with the store down: one fetched records, four passed
\* the upstream failure on and the race control fetch, failing at the
\* threshold, got the fallback.
C13_Witness ==
  /\ ~ready
  /\ Completed
  /\ Latest.kind = "fetch"
  /\ Latest.cat = "race_control"
  /\ OperationFailed(Latest)
  /\ ReturnedEmpty(Latest)
  /\ successfulRequests = 1
  /\ failedRequests = failureThreshold

\* What a CacheService method gives its caller when it could not use the
\* store: null from get, false from exists, nothing from the others.
Absent(r) == r.outcome = "returned" /\ ~r.hit /\ r.res = EmptyList

\* C14: no CacheService method raises to its caller, however the calls and
\* the store's going up and down are ordered; called while the client is not
\* ready, a method sends no command, leaves the store as it is and returns
\* at once (get null, exists false); and when a command is rejected midway
\* the method returns in the same way.
C14_CacheNeverRaises ==
  /\ [](\A i \in DOMAIN done :
          done[i].kind \in CacheOps => done[i].outcome = "returned")
  /\ [][\A c \in Slots : ~ready /\ StartStep(c) =>
            /\ cache' = cache
            /\ calls' = calls
            /\ done'[1].kind \in CacheOps
            /\ Absent(done'[1])]_vars
  /\ [][\A c \in Slots : storeCommandFails(c) =>
            /\ calls'[c] = Free
            /\ cache' = cache
            /\ done'[1].kind = calls[c].kind
            /\ Absent(done'[1])]_vars
  /\ [][\A c \in Slots :
            /\ calls[c].kind = "delPattern" /\ calls[c].pc = "cmd"
            /\ calls'[c] # calls[c] /\ ~ready
            => calls'[c] = Free /\ cache' = cache /\ Absent(done'[1])]_vars

\* get has returned null although the store is connected again and holds an
\* unexpired entry under the key: the store was down, or the command failed.
C14_Witness ==
  /\ Completed
  /\ Latest.kind = "get"
  /\ Absent(Latest)
  /\ ready
  /\ StoreGet(Cur, Latest.key) # Nothing
  /\ started = MaxCacheOps

\* ---- cache keys of the handler's requests
DriverCategories == {"drivers", "laps", "car_data", "stints"}

DiffersOnlyInDriver(p, q) ==
  /\ p.driver_number # q.driver_number
  /\ [p EXCEPT !.driver_number = q.driver_number] = q

\* C15: two requests of one of the categories drivers, laps, car data and
\* stints, for the same session, whose params differ only in driver_number
\* (present in both, or absent in one) have different cache keys.
C15_DriverNumberInKey ==
  \A i, j \in DOMAIN handler.results :
    LET a == handler.results[i]
        b == handler.results[j]
    IN  /\ a.cat = b.cat
        /\ a.cat \in DriverCategories
        /\ DiffersOnlyInDriver(a.params, b.params)
        => a.key # b.key

\* C16: the records a fetch returns from the cache were obtained by an
\* upstream call of the same category with the same query parameters as the
\* request.
C16_HitMatchesRequest ==
  \A i \in DOMAIN handler.results :
    LET r == handler.results[i]
    IN  r.outcome = "returned" /\ r.hit =>
          \A k \in DOMAIN r.res :
            r.res[k].cat = r.cat /\ r.res[k].params = r.params

\* C17: every cache write of a category fetch uses the TTL that
\* F1_CONSTANTS.CACHE_TTL gives for the category.
C17_TtlFromTable ==
  [][\A c \in Slots : WriteStep(c) =>
        \E e \in cache' :
          /\ e.key = calls[c].key
          /\ e.exp = now + CACHE_TTL(calls[c].cat) * 1000]_vars

\* C18: the fetch a handler makes for session N right after its
\* clearSessionCache(N) has completed, with the store reachable and nothing
\* else in progress, is a cache miss, whatever its category.
C18_ClearedSessionMisses ==
  \A i \in Pairs :
    LET cleared == handler.results[i]
        next == handler.results[i + 1]
    IN  /\ cleared.kind = "delPattern"
        /\ next.kind = "fetch"
        /\ cleared.key = SessionPattern(next.params.session_key)
        => ~next.hit

\* C19: preloadReplayData starts the fetch of each of its categories before
\* it awaits any of them, and it returns or fails towards its caller only
\* when every one of those fetches has settled.
C19_PreloadWaitsForAll ==
  /\ [][started' = started + 1 =>
          \A i \in DOMAIN PreloadCats :
            \/ \E c \in Slots : /\ calls'[c].parent = i
                                /\ calls'[c].cat = PreloadCats[i]
                                /\ calls'[c].pc # "idle"
            \/ preload'.results[i] # Nothing
            \/ preload'.status = "rejected"]_vars
  /\ [](preload.status \in {"resolved", "rejected"} => ChildrenSettled)

\* The action of the call in slot c settles in this step.
SettleStep(c) == calls[c].pc = "inflight" /\ calls'[c].pc # "inflight"

\* C20: with any number of execute calls in flight, every call started adds
\* one to totalRequests, every action that returns adds one to
\* successfulRequests and every action that fails adds one to failedRequests,
\* and nothing else moves these counters; so totalRequests is the number of
\* calls started, and the calls whose action has settled or is still in
\* flight are counted once each.
C20_CountersExact ==
  /\ [](/\ totalRequests = started
        /\ successfulRequests + failedRequests + Cardinality(InFlight)
             <= totalRequests)
  /\ [][started' = started + 1 =>
          /\ totalRequests' = totalRequests + 1
          /\ UNCHANGED <<successfulRequests, failedRequests>>]_vars
  /\ [][\A c \in Slots : SettleStep(c) =>
          /\ totalRequests' = totalRequests
          /\ IF OperationFailed(done'[1])
                THEN /\ failedRequests' = failedRequests + 1
                     /\ successfulRequests' = successfulRequests
                ELSE /\ successfulRequests' = successfulRequests + 1
                     /\ failedRequests' = failedRequests]_vars
  /\ [][started' = started /\ (\A c \in Slots : ~SettleStep(c)) =>
          UNCHANGED <<totalRequests, successfulRequests, failedRequests>>]_vars

\* All the calls were started, some actions have returned, some have failed
\* and two are still in flight: each is counted once.
C20_Witness ==
  /\ Cardinality(InFlight) >= 2
  /\ successfulRequests >= 1
  /\ failedRequests >= 1
  /\ totalRequests = MaxCalls
  /\ totalRequests = started
  /\ totalRequests
       = successfulRequests + failedRequests + Cardinality(InFlight)

\* C21: the fetches of all categories use the one breaker: an upstream
\* failure of a fetch of any category adds one to the same failure counter,
\* and while the state is OPEN and the recovery interval has not elapsed a
\* cache-miss fetch of any category is rejected and served the fallback
\* without an upstream call.
C21_OneBreakerForAll ==
  /\ [][\A c \in Slots :
          calls[c].kind = "fetch" /\ SettleStep(c) /\ OperationFailed(done'[1])
          => /\ done'[1].cat = calls[c].cat
             /\ failureCount' = failureCount + 1
             /\ done'[1].fcAfter = failureCount']_vars
  /\ [][\A c \in Slots :
          /\ ~ready /\ StartStep(c)
          /\ state = OPEN /\ lastFailureTime # Nothing
          /\ Elapsed < recoveryTimeout
          => /\ state' = OPEN
             /\ calls' = calls
             /\ failureCount' = failureCount
             /\ done'[1].cat \in Categories
             /\ Rejected(done'[1])
             /\ ReturnedEmpty(done'[1])]_vars
  /\ [](state = OPEN /\ Completed /\ Rejected(Latest) =>
          failedRequests >= failureThreshold)

\* A stints fetch was rejected by the breaker that the failures of the five
\* fetches before it had opened.
C21_Witness ==
  /\ Completed
  /\ Latest.cat = "stints"
  /\ Rejected(Latest)
  /\ ReturnedEmpty(Latest)
  /\ state = OPEN
  /\ failedRequests = failureThreshold
  /\ successfulRequests = 0
  /\ totalRequests = failureThreshold + 1

\* ---- concurrent fetches of one key while the upstream data changes
RaceInput == <<"drivers", [NoParams EXCEPT !.session_key = Some(1)]>>

NextRace ==
  \/ fetch(RaceInput[1], RaceInput[2])
  \/ \E c \in Slots : cacheGetReturns(c)
  \/ \E c \in Slots : cacheSetReturns(c)
  \/ \E c \in Slots : operationResolves(c)
  \/ \E c \in Slots : operationRejects(c)
  \/ storeUp
  \/ upstreamUpdate

SpecRace == Init /\ [][NextRace]_vars

\* ---- the breaker under execute calls without end.  execute never reads
\* the three request counters, so here they count up to MaxStat only, and
\* `started` is the parity of the number of calls; failures come early enough
\* for the clock to reach the end of their recovery interval.
CapStats(S) ==
  LET Cap(n) == IF n > MaxStat THEN MaxStat ELSE n
  IN  [S EXCEPT !.totalRequests = Cap(@), !.successfulRequests = Cap(@),
                !.failedRequests = Cap(@)]

executeAgain ==
  /\ Cardinality(Slots \ FreeSlots(Cur)) < MaxLiveInFlight
  /\ LET c == LowestFree(Cur)
         S1 == [Cur EXCEPT !.calls[c] =
                   [Free EXCEPT !.kind = "execute", !.fb = FALSE]]
     IN  Becomes(CapStats(ExecuteEntry(S1, c)))
  /\ started' = 1 - started
  /\ UNCHANGED <<envVars, decoderVars>>

operationResolvesAgain(c) ==
  /\ calls[c].pc = "inflight"
  /\ Becomes(CapStats(ExecuteReturned(onSuccess(Cur), c,
                                      Upstream(calls[c].cat,
                                               calls[c].params))))
  /\ UNCHANGED <<envVars, started, decoderVars>>

operationRejectsEarly(c) ==
  /\ calls[c].pc = "inflight"
  /\ now + recoveryTimeout <= MaxNow
  /\ LET S1 == onFailure(Cur)
         S2 == [S1 EXCEPT !.calls[c].fcAfter = S1.failureCount]
     IN  Becomes(CapStats(ExecuteThrew(S2, c, UpstreamError)))
  /\ UNCHANGED <<envVars, started, decoderVars>>

Settles ==
  \E c \in Slots : operationResolvesAgain(c) \/ operationRejectsEarly(c)

NextLive ==
  \/ executeAgain
  \/ \E c \in Slots : operationResolvesAgain(c)
  \/ \E c \in Slots : operationRejectsEarly(c)
  \/ Tick

\* The clock advances, and the HTTP client's timeout makes every operation
\* settle.
SpecLive ==
  /\ Init
  /\ [][NextLive]_vars
  /\ WF_vars(Tick)
  /\ WF_vars(Settles)

\* ---- a session invalidation while fetches of the session are in progress
\* and the upstream data changes; the store is connected from the start and
\* stays so
InitConnected ==
  /\ state = CLOSED
  /\ failureCount = 0
  /\ lastFailureTime = Nothing
  /\ totalRequests = 0
  /\ successfulRequests = 0
  /\ failedRequests = 0
  /\ cache = {}
  /\ ready = TRUE
  /\ calls = [c \in Slots |-> Free]
  /\ preload = NoPreload
  /\ handler = NoHandler
  /\ replay = NoReplay
  /\ done = <<>>
  /\ now = StartTime
  /\ upVer = 0
  /\ started = 0
  /\ raw = NoRow
  /\ transformed = NoRow

NextInvalidate ==
  \/ fetch("drivers", OneSession)
  \/ \E s \in Sessions : clearSessionCache(s)
  \/ \E c \in Slots : cacheGetReturns(c)
  \/ \E c \in Slots : cacheSetReturns(c)
  \/ \E c \in Slots : operationResolves(c)
  \/ \E c \in Slots : operationResolvesStale(c)
  \/ \E c \in Slots : storeReplies(c)
  \/ upstreamUpdate

SpecInvalidate == InitConnected /\ [][NextInvalidate]_vars

\* ---- replays asked for one after the other, each once the calls of the
\* previous one have settled, while the store is not connected (every fetch
\* is a miss that goes to the breaker)
NextReplay ==
  \/ \E s \in Sessions : startReplay(s)
  \/ startReplayResumes
  \/ \E c \in Slots : operationResolves(c)
  \/ \E c \in Slots : operationRejects(c)
  \/ Tick

SpecReplay == Init /\ [][NextReplay]_vars

\* ---- the transformations applied to one row of upstream data
\* The DRS codes tried: null/undefined and every integer of -1..MaxDrs.
DrsInputs == {Nothing} \cup {Some(n) : n \in -1..MaxDrs}

\* The segment codes tried: the five of the table and one that is not in it.
SegmentCodes == {0, 2048, 2049, 2051, 2064, 9999}

\* segments_sector_N: null or an array of at most MaxSegments codes.
SegmentInputs ==
  {Nothing} \cup
  {Some(a) : a \in UNION {[1..n -> SegmentCodes] : n \in 0..MaxSegments}}

RawRows ==
  [kind : {"car"}, drs : DrsInputs] \cup
  [kind : {"lap"}, segments_sector_1 : SegmentInputs,
   segments_sector_2 : SegmentInputs, segments_sector_3 : SegmentInputs]

InitDecoder ==
  /\ state = CLOSED
  /\ failureCount = 0
  /\ lastFailureTime = Nothing
  /\ totalRequests = 0
  /\ successfulRequests = 0
  /\ failedRequests = 0
  /\ cache = {}
  /\ ready = FALSE
  /\ calls = [c \in Slots |-> Free]
  /\ preload = NoPreload
  /\ handler = NoHandler
  /\ replay = NoReplay
  /\ done = <<>>
  /\ now = StartTime
  /\ upVer = 0
  /\ started = 0
  /\ raw \in RawRows
  /\ transformed = NoRow

NextDecoder ==
  \/ transformCarData
  \/ transformLapData

SpecDecoder == InitDecoder /\ [][NextDecoder]_vars

\* The transformed segments of the three sectors, with their inputs.
SectorPairs ==
  {<<raw.segments_sector_1, transformed.segments.sector1>>,
   <<raw.segments_sector_2, transformed.segments.sector2>>,
   <<raw.segments_sector_3, transformed.segments.sector3>>}

ResetStep ==
  /\ started' = started
  /\ now' = now
  /\ \A c \in Slots : ~SettleStep(c)

ResetDone ==
  /\ state' = CLOSED
  /\ failureCount' = 0
  /\ lastFailureTime' = Nothing
  /\ totalRequests' = 0
  /\ successfulRequests' = 0
  /\ failedRequests' = 0
  /\ calls' = calls

\* The execute call started in this step is the first one since a reset
\* (totalRequests is zero again although calls were started before).
FirstCallAfterReset ==
  /\ started' = started + 1
  /\ started > 0
  /\ totalRequests = 0

Invoked == \E c \in Slots : calls[c].pc = "idle" /\ calls'[c].pc = "inflight"

FetchSuccessStep(c) ==
  /\ calls[c].kind = "fetch"
  /\ calls[c].pc = "inflight"
  /\ calls'[c] # calls[c]
  /\ SuccessStep

EntriesOf(key) == {e \in cache : e.key = key}

\* C23: two fetches of one key that overlap can both miss and both call
\* upstream.  Every fetch whose upstream call succeeds hands its caller the
\* result of its own upstream call and writes that result under the key,
\* replacing the entry of the key; nothing else changes the cache.  So after
\* both fetches the cache holds a single entry of the key, equal to the
\* result of one of the two (the one written last).
C23_ConcurrentMissesLastWriteWins ==
  /\ [](\A e \in cache : Cardinality(EntriesOf(e.key)) = 1)
  /\ [][\A c \in Slots : FetchSuccessStep(c) =>
          LET res == Upstream(calls[c].cat, calls[c].params)
          IN  IF ready
                THEN /\ calls'[c].pc = "cacheSet"
                     /\ calls'[c].res = res
                     /\ cache' = Written(c, res)
                     /\ EntriesOf(calls[c].key)' =
                          {[key |-> calls[c].key, val |-> Stringify(res),
                            exp |-> now + FetchTtl(calls[c].cat) * 1000]}
                ELSE /\ done' = <<done'[1]>>
                     /\ done'[1].outcome = "returned"
                     /\ done'[1].res = res]_vars
  /\ [][\A c \in Slots : calls[c].pc = "cacheSet" /\ calls'[c] # calls[c] =>
          /\ done'[1].outcome = "returned"
          /\ done'[1].key = calls[c].key
          /\ done'[1].res = calls[c].res
          /\ cache' = cache]_vars
  /\ [][(\A c \in Slots : ~WriteStep(c)) => cache' = cache]_vars

\* Two fetches of the key and no other: both missed and both called
\* upstream, the upstream data changed between the two answers; the caller
\* that returned last got the older result and the cache holds the newer
\* one, as its only entry.
C23_Witness ==
  /\ started = 2
  /\ totalRequests = 2
  /\ successfulRequests = 2
  /\ FreeSlots(Cur) = Slots
  /\ Completed
  /\ ~Latest.hit
  /\ Latest.wrote
  /\ Latest.res = <<[cat |-> "drivers", params |-> RaceInput[2], ver |-> 0]>>
  /\ cache # {}
  /\ \A e \in cache :
       /\ e.key = Latest.key
       /\ Parse(e.val) =
            <<[cat |-> "drivers", params |-> RaceInput[2], ver |-> 1]>>

\* ---- the counter while the breaker is OPEN
\* C26 (as stated): in every reachable state, state = OPEN implies that the
\* consecutive-failure counter is at least the threshold: the state becomes
\* OPEN only in a step that leaves the counter at or above the threshold,
\* and no step lowers the counter while the state stays OPEN.
C26_OpenImpliesThreshold ==
  /\ [](state = OPEN => failureCount >= failureThreshold)
  /\ [][state # OPEN /\ state' = OPEN
          => failureCount' >= failureThreshold]_vars
  /\ [][state = OPEN /\ state' = OPEN
          => failureCount' >= failureCount]_vars

\* C26 (amended): the state becomes OPEN only in a step in which an action
\* fails and which leaves the counter at or above the threshold; while the
\* state stays OPEN the counter is lowered only by the success of a call
\* that was let through before the breaker opened, which sets it to zero.
\* So state = OPEN implies counter >= threshold only as long as no such call
\* has succeeded.
C26_OpensOnlyAtThreshold ==
  /\ [][state # OPEN /\ state' = OPEN
          => FailureStep /\ failureCount' >= failureThreshold]_vars
  /\ [][state = OPEN /\ state' = OPEN /\ failureCount' < failureCount
          => SuccessStep /\ failureCount' = 0]_vars
  /\ [](state = OPEN /\ successfulRequests = 0
          => failureCount >= failureThreshold)

\* Seven calls were let through while CLOSED: five failed and opened the
\* breaker, one succeeded after that and cleared the counter, and the last
\* one failed: the breaker is OPEN with the counter at 1.
C26_Witness ==
  /\ state = OPEN
  /\ failureCount = 1
  /\ successfulRequests = 1
  /\ failedRequests = failureThreshold + 1
  /\ Completed
  /\ OperationFailed(Latest)
  /\ Latest.invokedIn = CLOSED

\* ---- the statistics snapshot under resets
\* C27: in every reachable state, for any interleaving of execute calls,
\* their completions and resets, the statistics snapshot satisfies
\* successfulRequests + failedRequests <= totalRequests.
C27_SettledAtMostStarted ==
  successfulRequests + failedRequests <= totalRequests

\* ---- the replay start
\* C29: startReplay calls preloadReplayData only when the driver fetch
\* returned at least one driver; whenever the driver list is empty (the
\* breaker's empty-list fallback and a cached empty list included),
\* startReplay fails with NOT_FOUND and the preload is never started.
C29_NoPreloadWithoutDrivers ==
  /\ [][replay.pc # "preload" /\ replay'.pc = "preload"
          => replay'.drivers # Nothing /\ Len(replay'.drivers[1]) >= 1]_vars
  /\ [](replay.drivers = Some(EmptyList)
          => /\ replay.pc \in {"validate", "done"}
             /\ replay.pc = "done" => replay.error = NotFoundError)

\* ---- invalidation against fetches in flight
\* The session invalidation the handler ran last has completed and no fetch
\* is in progress.
InvalidationAndFetchesCompleted ==
  /\ handler.results # <<>>
  /\ ~handler.waiting
  /\ handler.results[Len(handler.results)].kind = "delPattern"
  /\ FreeSlots(Cur) = Slots

\* C30: a session invalidation is not undone by a fetch that was in flight:
\* once clearSessionCache(N) and the fetches of session N that ran
\* concurrently with it have completed, the cache holds no entry of session
\* N with data that the upstream API had read before the invalidation
\* started (data of a version older than the one current at that moment).
C30_InvalidationNotUndone ==
  InvalidationAndFetchesCompleted =>
    LET cleared == handler.results[Len(handler.results)]
    IN  \A e \in cache :
          Matches(cleared.key, e.key) =>
            \A i \in 1..Len(Parse(e.val)) : Parse(e.val)[i].ver >= cleared.sent

\* ---- recovery of the breaker
ExecuteCalled == started' # started
RejectStep == failureCount' = failureCount + 1

\* C28: if from some point on no upstream action fails and execute keeps
\* being called, the breaker reaches CLOSED, stays CLOSED from then on, and
\* from then on every execute call invokes its action.
C28_EventuallyClosedForGood ==
  (<>[][~RejectStep]_vars /\ []<><<ExecuteCalled>>_vars)
    => /\ <>[](state = CLOSED)
       /\ <>[][ExecuteCalled => Invoked]_vars

\* The breaker had opened with a call still in flight; after the recovery
\* interval two calls were let through in HALF_OPEN and the success of one
\* of them has closed the breaker.
C28_Witness ==
  /\ state = CLOSED
  /\ failureCount = 0
  /\ lastFailureTime # Nothing
  /\ Completed
  /\ ~OperationFailed(Latest)
  /\ Latest.outcome = "returned"
  /\ Latest.invokedIn = HALF_OPEN
  /\ \E c \in Slots : calls[c].pc = "inflight"
                        /\ calls[c].invokedIn = HALF_OPEN

====
